---------------------------- MODULE Spec2Model ----------------------------
(* A model of data_generator.py: a library of synthetic-data generators    *)
(* that all draw from one process-wide pseudo-random source (Python's      *)
(* `random` module, seeded with 42 at import) and, for dated records, from *)
(* the wall clock (datetime.now()).                                        *)
(*                                                                         *)
(* The random source is modelled as a deterministic generator: its state   *)
(* is a position in a cyclic stream of raw words, the stream being the     *)
(* (unknown, hence arbitrary) sequence the seed determines.  Every library *)
(* call of the code (random(), randint, uniform, choice, one element of    *)
(* choices, one step of shuffle) consumes one raw word.                    *)
(*                                                                         *)
(* Reals are fixed-point: a float is an integer number of thousandths.     *)
(* Instants are integer minutes.                                           *)
EXTENDS Integers, Sequences, FiniteSets, TLC

VARIABLES
    stream,   \* the raw words the seeded generator yields, one per state
    rng,      \* state of the shared random source (position in the stream)
    clock,    \* the wall clock, in minutes
    ret,      \* outcome of the last library call
    first     \* the first generate_all_datasets() output made right after seeding

vars == <<stream, rng, clock, ret, first>>

-----------------------------------------------------------------------------
(* Bounds of the model *)

Period == 2        \* length of the generator's cycle
NWords == 2        \* number of distinct raw words a stream may hold
MaxN == 2          \* largest count / rows / cols / days passed to a generator
MaxClock == 1      \* the clock runs from 0 to MaxClock

Res == 1000        \* raw words are 0..Res-1; random() is word/Res
WordStep == 727    \* the sampled raw words are multiples of WordStep mod Res

Words == {(k * WordStep) % Res : k \in 0..(NWords - 1)}
Streams == [0..(Period - 1) -> Words]

Minute == 1
Hour == 60 * Minute
Day == 24 * Hour

None == "None"

-----------------------------------------------------------------------------
(* Calls and their outcomes *)

\* The outcome r of calling fn(args) at instant now becomes the last outcome
\* and the source moves to the state the call left it in.  rng0 is the state
\* the call found the source in, fresh whether random.seed was the call before.
Call(fn, args, now, r) ==
    /\ ret' = [fn |-> fn, args |-> args, now |-> now, rng0 |-> rng,
               fresh |-> (ret.fn = "seed"),
               status |-> r.status, value |-> r.value, error |-> r.error]
    /\ rng' = r.rng

\* a call that returns v, or raises e, leaving the source in state g
Returned(v, g) == [status |-> "returned", value |-> v, error |-> None, rng |-> g]
Raised(e, g) == [status |-> "raised", value |-> None, error |-> e, rng |-> g]

-----------------------------------------------------------------------------
(* The random module *)

SeedState == 0                      \* random.seed(42)
Raw(g) == stream[g]
Step(g, k) == (g + k) % Period      \* the state after k draws

\* random(): numerator of a real in [0, 1), denominator Res
Random(g) == Raw(g)
\* _randbelow(n): an integer in 0..n-1
RandBelow(g, n) == Raw(g) % n
\* (variant) randint drawing from a+1..b+1
RandInt_Shifted(g, a, b) == a + RandBelow(g, b - a + 1) + 1

\* randint(a, b), a <= b: an integer in a..b
RandInt(g, a, b) == a + RandBelow(g, b - a + 1)
\* uniform(a, b) = a + (b - a) * random(), a and b in thousandths
\* (the product is taken in two parts to stay within 32-bit integers)
Uniform(g, a, b) ==
    a + ((b - a) \div Res) * Random(g) + (((b - a) % Res) * Random(g)) \div Res
\* choice(seq) = seq[_randbelow(len(seq))]
Choice(g, seq) == seq[RandBelow(g, Len(seq)) + 1]
\* one element of choices(population, k): population[floor(random() * n)]
ChoicesAt(g, seq) == seq[((Random(g) * Len(seq)) \div Res) + 1]

\* round(x, d): x in thousandths, unit = 10^(3-d) thousandths; the result
\* counts units, ties go to the even neighbour
Round(x, unit) ==
    LET q == x \div unit
        r == x % unit
    IN  IF 2 * r < unit THEN q
        ELSE IF 2 * r > unit THEN q + 1
        ELSE IF q % 2 = 0 THEN q ELSE q + 1

\* (variant) max that forgets the floor
Max_NoClamp(a, b) == b

Max(a, b) == IF b > a THEN b ELSE a

\* f"{i:0wd}": the decimal digits of i >= 0, zero-padded to width w
RECURSIVE Digits(_)
Digits(i) == IF i < 10 THEN <<i>> ELSE Append(Digits(i \div 10), i % 10)
RECURSIVE PadLeft(_, _)
PadLeft(ds, w) == IF Len(ds) >= w THEN ds ELSE PadLeft(<<0>> \o ds, w)
Format(i, w) == PadLeft(Digits(i), w)


-----------------------------------------------------------------------------
(* Basic data generators *)

DefaultN_numbers == 100
DefaultMin == -100
DefaultMax == 100

\* (variant) generate_numbers answering n = 0 before it looks at the type
generate_numbers_EmptyFirst(g, n, min_val, max_val, type) ==
    IF n = 0 THEN Returned(<<>>, g)
    ELSE IF type = "int" THEN
        IF min_val > max_val
        THEN Raised("ValueError", g)
        ELSE Returned([i \in 1..n |-> RandInt(Step(g, i - 1), min_val, max_val)],
                      Step(g, n))
    ELSE IF type = "float" THEN
        Returned([i \in 1..n |->
                    Uniform(Step(g, i - 1), min_val * Res, max_val * Res)],
                 Step(g, n))
    ELSE Raised("ValueError", g)

\* (variant) generate_numbers drawing a sample before it looks at the type
generate_numbers_DrawFirst(g, n, min_val, max_val, type) ==
    IF type = "int" THEN
        IF n > 0 /\ min_val > max_val
        THEN Raised("ValueError", g)
        ELSE Returned([i \in 1..n |-> RandInt(Step(g, i - 1), min_val, max_val)],
                      Step(g, n))
    ELSE IF type = "float" THEN
        Returned([i \in 1..n |->
                    Uniform(Step(g, i - 1), min_val * Res, max_val * Res)],
                 Step(g, n))
    ELSE Raised("ValueError", Step(g, 1))

generate_numbers(g, n, min_val, max_val, type) ==
    IF type = "int" THEN
        IF n > 0 /\ min_val > max_val
        THEN Raised("ValueError", g)       \* randint: empty range
        ELSE Returned([i \in 1..n |-> RandInt(Step(g, i - 1), min_val, max_val)],
                      Step(g, n))
    ELSE IF type = "float" THEN
        Returned([i \in 1..n |->
                    Uniform(Step(g, i - 1), min_val * Res, max_val * Res)],
                 Step(g, n))
    ELSE Raised("ValueError", g)

ascii_lowercase ==
    <<"a", "b", "c", "d", "e", "f", "g", "h", "i", "j", "k", "l", "m",
      "n", "o", "p", "q", "r", "s", "t", "u", "v", "w", "x", "y", "z">>

\* ''.join(random.choices(population, k=length)): length draws
Choices(g, seq, k) == [j \in 1..k |-> ChoicesAt(Step(g, j - 1), seq)]

DefaultN_strings == 50
DefaultMinLen == 3
DefaultMaxLen == 15

RECURSIVE strings_loop(_, _, _, _, _)
strings_loop(g, k, min_len, max_len, strings) ==
    IF k = 0 THEN Returned(strings, g)
    ELSE LET length == RandInt(g, min_len, max_len)
             s == Choices(Step(g, 1), ascii_lowercase, length)
         IN  strings_loop(Step(g, 1 + length), k - 1, min_len, max_len,
                          Append(strings, s))

generate_strings(g, n, min_len, max_len) ==
    IF n > 0 /\ min_len > max_len
    THEN Raised("ValueError", g)
    ELSE strings_loop(g, n, min_len, max_len, <<>>)

word_prefixes == <<"pre", "anti", "de", "dis", "over", "under", "semi", "non", "sub", "">>
word_roots == <<"work", "play", "think", "run", "walk", "talk", "read", "write", "code", "test">>
word_suffixes == <<"ing", "ed", "er", "est", "ly", "ness", "ment", "ful", "less", "">>

DefaultN_words == 100

generate_words(g, n) ==
    Returned([i \in 1..n |->
                LET h == Step(g, 3 * (i - 1))
                IN  <<Choice(h, word_prefixes), Choice(Step(h, 1), word_roots),
                      Choice(Step(h, 2), word_suffixes)>>],
             Step(g, 3 * n))

subjects == <<"The student", "A professor", "The algorithm", "Python", "The data">>
verbs == <<"processes", "analyzes", "transforms", "filters", "aggregates", "computes">>
objects == <<"the results", "large datasets", "complex patterns", "user input", "the output">>
clauses == <<" quickly", " efficiently", " with precision", " carefully">>

DefaultN_sentences == 30

RECURSIVE sentences_loop(_, _, _)
sentences_loop(g, k, sentences) ==
    IF k = 0 THEN Returned(sentences, g)
    ELSE LET sentence == <<Choice(g, subjects), " ", Choice(Step(g, 1), verbs), " ",
                           Choice(Step(g, 2), objects), ".">>
             more == Random(Step(g, 3)) * 10 > 7 * Res
         IN  IF more
             THEN sentences_loop(Step(g, 5), k - 1,
                      Append(sentences,
                             SubSeq(sentence, 1, Len(sentence) - 1)
                                 \o <<Choice(Step(g, 4), clauses), ".">>))
             ELSE sentences_loop(Step(g, 4), k - 1, Append(sentences, sentence))

generate_sentences(g, n) == sentences_loop(g, n, <<>>)

-----------------------------------------------------------------------------
(* Structured data generators *)

first_names == <<"Alice", "Bob", "Charlie", "Diana", "Eve", "Frank", "Grace", "Henry">>
last_names == <<"Smith", "Johnson", "Williams", "Brown", "Jones", "Garcia", "Miller">>
majors == <<"CS", "Math", "Physics", "Biology", "Chemistry", "English", "History", "Art">>

DefaultN_students == 50

\* (variant) generate_students looping over range(1, n)
generate_students_Short(g, n) ==
    Returned([i \in 1..(n - 1) |->
                LET h == Step(g, 6 * (i - 1))
                IN  [name |-> <<Choice(h, first_names), " ", Choice(Step(h, 1), last_names)>>,
                     age |-> RandInt(Step(h, 2), 18, 26),
                     grade |-> Round(Uniform(Step(h, 3), 55000, 100000), 100),
                     major |-> Choice(Step(h, 4), majors),
                     credits |-> RandInt(Step(h, 5), 12, 18)]],
             Step(g, 6 * (n - 1)))

\* grade is in tenths (round(..., 1))
generate_students(g, n) ==
    Returned([i \in 1..n |->
                LET h == Step(g, 6 * (i - 1))
                IN  [name |-> <<Choice(h, first_names), " ", Choice(Step(h, 1), last_names)>>,
                     age |-> RandInt(Step(h, 2), 18, 26),
                     grade |-> Round(Uniform(Step(h, 3), 55000, 100000), 100),
                     major |-> Choice(Step(h, 4), majors),
                     credits |-> RandInt(Step(h, 5), 12, 18)]],
             Step(g, 6 * n))

product_prefixes == <<"Ultra", "Pro", "Basic", "Premium", "Eco", "Smart", "Power", "Mini">>
product_items == <<"Laptop", "Phone", "Tablet", "Watch", "Speaker", "Camera", "Headphones">>
product_categories == <<"Electronics", "Computers", "Audio", "Photography", "Wearables">>

DefaultN_products == 100
ProductIdBase == 1000

\* price is in cents (round(..., 2)), rating in tenths
generate_products(g, n) ==
    Returned([k \in 1..n |->
                LET i == k - 1
                    h == Step(g, 6 * i)
                IN  [id |-> i + ProductIdBase,
                     name |-> <<Choice(h, product_prefixes), " ",
                                Choice(Step(h, 1), product_items)>>,
                     price |-> Round(Uniform(Step(h, 2), 29990, 2999990), 10),
                     quantity |-> RandInt(Step(h, 3), 0, 500),
                     category |-> Choice(Step(h, 4), product_categories),
                     rating |-> Round(Uniform(Step(h, 5), 1000, 5000), 100)]],
             Step(g, 6 * n))

txn_categories == <<"Food", "Transport", "Entertainment", "Shopping", "Bills", "Healthcare">>
merchants == <<"Amazon", "Walmart", "Starbucks", "Uber", "Netflix", "CVS", "Target">>
statuses == <<"completed", "completed", "completed", "pending", "failed">>

DefaultN_transactions == 200
TxnIdBase == 5000
TxnWindowDays == 90

\* now is datetime.now(), read once before the loop
generate_transactions(g, now, n) ==
    LET start_date == now - TxnWindowDays * Day
    IN  Returned([k \in 1..n |->
                    LET i == k - 1
                        h == Step(g, 6 * i)
                    IN  [id |-> i + TxnIdBase,
                         date |-> start_date + RandInt(h, 0, 90) * Day
                                             + RandInt(Step(h, 1), 0, 23) * Hour,
                         amount |-> Round(Uniform(Step(h, 2), 5000, 500000), 10),
                         category |-> Choice(Step(h, 3), txn_categories),
                         merchant |-> Choice(Step(h, 4), merchants),
                         status |-> Choice(Step(h, 5), statuses)]],
                 Step(g, 6 * n))

levels == <<"INFO", "INFO", "INFO", "WARNING", "WARNING", "ERROR", "DEBUG", "CRITICAL">>
modules == <<"auth", "database", "api", "payment", "email", "cache">>
messages ==
    [INFO |-> <<"User logged in", "Request processed", "File uploaded", "Cache updated">>,
     WARNING |-> <<"High memory usage", "Slow query detected", "Rate limit approaching">>,
     ERROR |-> <<"Connection failed", "Invalid input", "Timeout occurred", "Permission denied">>,
     DEBUG |-> <<"Variable value", "Function called", "Loop iteration">>,
     CRITICAL |-> <<"System crash", "Data corruption detected", "Security breach">>]

\* (variant) a lookup whose key never matches
MessagesGet_Missed(level) == <<"Generic message">>

\* messages.get(level, ['Generic message'])
MessagesGet(level) ==
    IF level \in DOMAIN messages THEN messages[level] ELSE <<"Generic message">>

DefaultN_logs == 500

generate_logs(g, now, n) ==
    LET start_time == now - 24 * Hour
    IN  Returned([i \in 1..n |->
                    LET h == Step(g, 5 * (i - 1))
                        level == Choice(Step(h, 1), levels)
                    IN  [timestamp |-> start_time + RandInt(h, 0, 1440) * Minute,
                         level |-> level,
                         message |-> Choice(Step(h, 2), MessagesGet(level)),
                         module |-> Choice(Step(h, 3), modules),
                         user_id |-> RandInt(Step(h, 4), 1000, 9999)]],
                 Step(g, 5 * n))

-----------------------------------------------------------------------------
(* Special data generators *)

DefaultRows == 5
DefaultCols == 5
DefaultMatrixMin == 0
DefaultMatrixMax == 10

generate_matrix(g, rows, cols, min_val, max_val) ==
    IF rows > 0 /\ cols > 0 /\ min_val > max_val
    THEN Raised("ValueError", g)
    ELSE Returned([r \in 1..rows |->
                     [c \in 1..cols |->
                        RandInt(Step(g, (r - 1) * cols + (c - 1)), min_val, max_val)]],
                  Step(g, rows * cols))

DefaultN_gradeStudents == 20
DefaultN_assignments == 5

\* a dict is a function on its keys; keys are the formatted labels
generate_grades_dict(g, n_students, n_assignments) ==
    LET students == [i \in 1..n_students |-> <<"Student_", Format(i, 2)>>]
        assignments == [i \in 1..n_assignments |-> <<"HW_", Format(i, 1)>>]
        Index(seq, key) == CHOOSE i \in DOMAIN seq : seq[i] = key
    IN  Returned([student \in {students[i] : i \in DOMAIN students} |->
                    [assignment \in {assignments[i] : i \in DOMAIN assignments} |->
                        RandInt(Step(g, (Index(students, student) - 1) * n_assignments
                                        + (Index(assignments, assignment) - 1)),
                                60, 100)]],
                 Step(g, n_students * n_assignments))

DefaultDays == 30
DefaultInitial == 100

\* value is carried in thousandths; the recorded value is in cents
RECURSIVE time_series_loop(_, _, _, _, _, _)
time_series_loop(g, i, days, start_date, value, data) ==
    IF i = days THEN Returned(data, g)
    ELSE LET date == start_date + i * Day
             change == Uniform(g, -10000, 12000)
             v == Max(0, value + change)
         IN  time_series_loop(Step(g, 2), i + 1, days, start_date, v,
                 Append(data, [date |-> date,
                               value |-> Round(v, 10),
                               volume |-> RandInt(Step(g, 1), 1000, 10000)]))

generate_time_series(g, now, days, initial) ==
    time_series_loop(g, 0, days, now - days * Day, initial * Res, <<>>)

cities == <<"New York", "Los Angeles", "Chicago", "Houston", "Phoenix", "Philadelphia">>

DefaultN_users == 100

\* (variant) one list of purchase records, built once and given to every user
purchases_Shared(g, now, count, alloc) ==
    [j \in 1..count |->
        LET h == Step(g, 3 * (j - 1))
        IN  [oid |-> j,
             item |-> <<"item_", RandInt(h, 1, 50)>>,
             price |-> Round(Uniform(Step(h, 1), 10000, 200000), 10),
             date |-> now - RandInt(Step(h, 2), 1, 90) * Day]]

\* Every dict the comprehension builds is a new object: oid is its identity,
\* taken from the allocation counter alloc.
purchases_of(g, now, count, alloc) ==
    [j \in 1..count |->
        LET h == Step(g, 3 * (j - 1))
        IN  [oid |-> alloc + j,
             item |-> <<"item_", RandInt(h, 1, 50)>>,
             price |-> Round(Uniform(Step(h, 1), 10000, 200000), 10),
             date |-> now - RandInt(Step(h, 2), 1, 90) * Day]]

RECURSIVE user_data_loop(_, _, _, _, _)
user_data_loop(g, now, n, alloc, users) ==
    IF Len(users) >= n THEN Returned(users, g)
    ELSE LET i == Len(users)
             count == RandInt(Step(g, 4), 0, 10)
             user == [id |-> i + 1,
                      username |-> <<"user_", Format(i, 4)>>,
                      email |-> <<"user_", Format(i, 4), "@example.com">>,
                      age |-> RandInt(g, 18, 65),
                      city |-> Choice(Step(g, 1), cities),
                      active |-> Random(Step(g, 2)) * 10 > 2 * Res,
                      premium |-> Random(Step(g, 3)) * 10 > 7 * Res,
                      purchases |-> purchases_of(Step(g, 5), now, count, alloc)]
         IN  user_data_loop(Step(g, 5 + 3 * count), now, n, alloc + count,
                            Append(users, user))

generate_user_data(g, now, n) == user_data_loop(g, now, n, 0, <<>>)

\* a heterogeneous list: each element carries its type
mixed_literal ==
    <<[t |-> "int", v |-> 42], [t |-> "str", v |-> "hello"], [t |-> "float", v |-> 3140],
      [t |-> "NoneType", v |-> None], [t |-> "bool", v |-> TRUE],
      [t |-> "list", v |-> <<1, 2, 3>>], [t |-> "str", v |-> "world"],
      [t |-> "int", v |-> -17], [t |-> "bool", v |-> FALSE],
      [t |-> "dict", v |-> [key |-> "value"]], [t |-> "int", v |-> 0],
      [t |-> "str", v |-> ""], [t |-> "list", v |-> <<>>], [t |-> "dict", v |-> <<>>],
      [t |-> "str", v |-> "Python"], [t |-> "int", v |-> 100],
      [t |-> "float", v |-> 2718], [t |-> "set", v |-> {1, 2}],
      [t |-> "tuple", v |-> <<1, 2, 3>>]>>

MixedRepeat == 5

generate_mixed_types(g) ==
    Returned([i \in 1..(MixedRepeat * Len(mixed_literal)) |->
                mixed_literal[((i - 1) % Len(mixed_literal)) + 1]],
             g)

-----------------------------------------------------------------------------
(* Data with specific patterns *)

domains == <<"gmail.com", "yahoo.com", "company.com", "university.edu">>
text_parts == <<"Contact us at", "Send feedback to", "Email:", "Reach out to",
                "For support, contact">>

EmailLines == 30
UsernameLen == 8

RECURSIVE emails_loop(_, _, _)
emails_loop(g, k, lines) ==
    IF k = 0 THEN Returned(lines, g)
    ELSE IF Random(g) * 10 > 3 * Res THEN
        LET username == Choices(Step(g, 1), ascii_lowercase, UsernameLen)
            h == Step(g, 1 + UsernameLen)
            email == <<username, "@", Choice(h, domains)>>
            text == <<Choice(Step(h, 1), text_parts), " ", email>>
        IN  IF Random(Step(h, 2)) * 10 > 5 * Res
            THEN emails_loop(Step(h, 5), k - 1,
                     Append(lines, text \o <<" or call ", RandInt(Step(h, 3), 100, 999),
                                             "-", RandInt(Step(h, 4), 1000, 9999)>>))
            ELSE emails_loop(Step(h, 3), k - 1, Append(lines, text))
    ELSE emails_loop(Step(g, 1), k - 1,
                     Append(lines, <<"This line contains no email address.">>))

generate_emails_text(g) == emails_loop(g, EmailLines, <<>>)

NSquares == 10
primes == <<2, 3, 5, 7, 11, 13, 17, 19, 23, 29, 31, 37, 41, 43, 47>>
fibs == <<1, 1, 2, 3, 5, 8, 13, 21, 34, 55, 89>>
NPatternRandom == 50

\* (variant) x[i] = x[j] without the exchange
Swap_Overwrite(x, i, j) == [x EXCEPT ![i] = x[j]]

Swap(x, i, j) == [x EXCEPT ![i] = x[j], ![j] = x[i]]

\* random.shuffle: for i in reversed(range(1, len(x))): j = _randbelow(i + 1);
\* x[i], x[j] = x[j], x[i]   (i, j are 0-based; sequences here are 1-based)
RECURSIVE shuffle_loop(_, _, _)
shuffle_loop(g, i, x) ==
    IF i < 1 \/ i >= Len(x) THEN [value |-> x, rng |-> g]
    ELSE LET j == RandBelow(g, i + 1)
         IN  shuffle_loop(Step(g, 1), i - 1, Swap(x, i + 1, j + 1))

Shuffle(g, x) == shuffle_loop(g, Len(x) - 1, x)

generate_pattern_numbers(g) ==
    LET squares == [i \in 1..NSquares |-> i * i]
        randoms == [i \in 1..NPatternRandom |-> RandInt(Step(g, i - 1), 1, 100)]
        numbers == squares \o primes \o fibs \o randoms
        sh == Shuffle(Step(g, NPatternRandom), numbers)
    IN  Returned(sh.value, sh.rng)

-----------------------------------------------------------------------------
(* generate_all_datasets: every generator with its defaults, in the order  *)
(* of the dict literal.  A generator that raises ends the call.            *)

generate_all_datasets(g, now) ==
    LET numbers == generate_numbers(g, DefaultN_numbers, DefaultMin, DefaultMax, "int")
        floats == generate_numbers(numbers.rng, DefaultN_numbers, DefaultMin, DefaultMax,
                                   "float")
        strings == generate_strings(floats.rng, DefaultN_strings, DefaultMinLen,
                                    DefaultMaxLen)
        words == generate_words(strings.rng, DefaultN_words)
        sentences == generate_sentences(words.rng, DefaultN_sentences)
        students == generate_students(sentences.rng, DefaultN_students)
        products == generate_products(students.rng, DefaultN_products)
        transactions == generate_transactions(products.rng, now, DefaultN_transactions)
        logs == generate_logs(transactions.rng, now, DefaultN_logs)
        matrix == generate_matrix(logs.rng, DefaultRows, DefaultCols, DefaultMatrixMin,
                                  DefaultMatrixMax)
        grades == generate_grades_dict(matrix.rng, DefaultN_gradeStudents,
                                       DefaultN_assignments)
        time_series == generate_time_series(grades.rng, now, DefaultDays, DefaultInitial)
        users == generate_user_data(time_series.rng, now, DefaultN_users)
        mixed_types == generate_mixed_types(users.rng)
        emails_text == generate_emails_text(mixed_types.rng)
        pattern_numbers == generate_pattern_numbers(emails_text.rng)
        parts == <<numbers, floats, strings, words, sentences, students, products,
                   transactions, logs, matrix, grades, time_series, users, mixed_types,
                   emails_text, pattern_numbers>>
    IN  IF \E k \in DOMAIN parts : parts[k].status = "raised"
        THEN LET k == CHOOSE k \in DOMAIN parts :
                        /\ parts[k].status = "raised"
                        /\ \A m \in 1..(k - 1) : parts[m].status = "returned"
             IN  Raised(parts[k].error, parts[k].rng)
        ELSE Returned([numbers |-> numbers.value,
                       floats |-> floats.value,
                       strings |-> strings.value,
                       words |-> words.value,
                       sentences |-> sentences.value,
                       students |-> students.value,
                       products |-> products.value,
                       transactions |-> transactions.value,
                       logs |-> logs.value,
                       matrix |-> matrix.value,
                       grades |-> grades.value,
                       time_series |-> time_series.value,
                       users |-> users.value,
                       mixed_types |-> mixed_types.value,
                       emails_text |-> emails_text.value,
                       pattern_numbers |-> pattern_numbers.value],
                      pattern_numbers.rng)

-----------------------------------------------------------------------------
(* The library as a state machine: one action per call a client can make *)

Counts == 0..MaxN
Ranges == {<<-100, 100>>, <<3, 3>>, <<5, 2>>}
Types == {"int", "float", "bogus"}
LenRanges == {<<3, 15>>, <<0, 1>>}
Initials == {100, 0, -5}

\* import: random.seed(42) has run, nothing was called
Init ==
    /\ stream \in Streams
    /\ rng = SeedState
    /\ clock = 0
    /\ ret = [fn |-> "seed", args |-> <<42>>, now |-> 0, rng0 |-> SeedState,
              fresh |-> FALSE,
              status |-> "returned", value |-> None, error |-> None]
    /\ first = [set |-> FALSE, now |-> 0, value |-> None]

\* (variant) a seed call that leaves the source where it was
Seed_NoReset ==
    /\ Call("seed", <<42>>, clock, Returned(None, rng))
    /\ UNCHANGED <<stream, clock, first>>

\* random.seed(42)
Seed ==
    /\ Call("seed", <<42>>, clock, Returned(None, SeedState))
    /\ UNCHANGED <<stream, clock, first>>

\* time passes
Tick ==
    /\ clock < MaxClock
    /\ clock' = clock + 1
    /\ UNCHANGED <<stream, rng, ret, first>>

GenerateNumbers(n, min_val, max_val, type) ==
    /\ Call("generate_numbers", <<n, min_val, max_val, type>>, clock,
            generate_numbers(rng, n, min_val, max_val, type))
    /\ UNCHANGED <<stream, clock, first>>

GenerateStrings(n, min_len, max_len) ==
    /\ Call("generate_strings", <<n, min_len, max_len>>, clock,
            generate_strings(rng, n, min_len, max_len))
    /\ UNCHANGED <<stream, clock, first>>

GenerateWords(n) ==
    /\ Call("generate_words", <<n>>, clock, generate_words(rng, n))
    /\ UNCHANGED <<stream, clock, first>>

GenerateSentences(n) ==
    /\ Call("generate_sentences", <<n>>, clock, generate_sentences(rng, n))
    /\ UNCHANGED <<stream, clock, first>>

GenerateStudents(n) ==
    /\ Call("generate_students", <<n>>, clock, generate_students(rng, n))
    /\ UNCHANGED <<stream, clock, first>>

GenerateProducts(n) ==
    /\ Call("generate_products", <<n>>, clock, generate_products(rng, n))
    /\ UNCHANGED <<stream, clock, first>>

GenerateTransactions(n) ==
    /\ Call("generate_transactions", <<n>>, clock, generate_transactions(rng, clock, n))
    /\ UNCHANGED <<stream, clock, first>>

GenerateLogs(n) ==
    /\ Call("generate_logs", <<n>>, clock, generate_logs(rng, clock, n))
    /\ UNCHANGED <<stream, clock, first>>

GenerateMatrix(rows, cols, min_val, max_val) ==
    /\ Call("generate_matrix", <<rows, cols, min_val, max_val>>, clock,
            generate_matrix(rng, rows, cols, min_val, max_val))
    /\ UNCHANGED <<stream, clock, first>>

GenerateGradesDict(n_students, n_assignments) ==
    /\ Call("generate_grades_dict", <<n_students, n_assignments>>, clock,
            generate_grades_dict(rng, n_students, n_assignments))
    /\ UNCHANGED <<stream, clock, first>>

GenerateTimeSeries(days, initial) ==
    /\ Call("generate_time_series", <<days, initial>>, clock,
            generate_time_series(rng, clock, days, initial))
    /\ UNCHANGED <<stream, clock, first>>

GenerateUserData(n) ==
    /\ Call("generate_user_data", <<n>>, clock, generate_user_data(rng, clock, n))
    /\ UNCHANGED <<stream, clock, first>>

GenerateMixedTypes ==
    /\ Call("generate_mixed_types", <<>>, clock, generate_mixed_types(rng))
    /\ UNCHANGED <<stream, clock, first>>

GenerateEmailsText ==
    /\ Call("generate_emails_text", <<>>, clock, generate_emails_text(rng))
    /\ UNCHANGED <<stream, clock, first>>

GeneratePatternNumbers ==
    /\ Call("generate_pattern_numbers", <<>>, clock, generate_pattern_numbers(rng))
    /\ UNCHANGED <<stream, clock, first>>

\* generate_all_datasets(); the first run made right after seeding is kept
GenerateAllDatasets ==
    /\ LET r == generate_all_datasets(rng, clock)
       IN  /\ Call("generate_all_datasets", <<>>, clock, r)
           /\ first' = IF ~first.set /\ ret.fn = "seed" /\ r.status = "returned"
                       THEN [set |-> TRUE, now |-> clock, value |-> r.value]
                       ELSE first
    /\ UNCHANGED <<stream, clock>>

\* Clients of the basic and structured generators
Next ==
    \/ Seed
    \/ Tick
    \/ \E n \in Counts, range \in Ranges, type \in Types :
            GenerateNumbers(n, range[1], range[2], type)
    \/ \E n \in Counts, lens \in LenRanges : GenerateStrings(n, lens[1], lens[2])
    \/ \E n \in Counts : GenerateWords(n)
    \/ \E n \in Counts : GenerateSentences(n)
    \/ \E n \in Counts : GenerateStudents(n)
    \/ \E n \in Counts : GenerateProducts(n)
    \/ \E n \in Counts : GenerateTransactions(n)
    \/ \E n \in Counts : GenerateLogs(n)

Spec == Init /\ [][Next]_vars

\* Clients of the ranged integer generators
NextNumeric ==
    \/ Seed
    \/ \E n \in Counts, range \in Ranges, type \in Types :
            GenerateNumbers(n, range[1], range[2], type)
    \/ \E rows \in Counts, cols \in Counts, range \in Ranges :
            GenerateMatrix(rows, cols, range[1], range[2])

SpecNumeric == Init /\ [][NextNumeric]_vars

\* Clients of the special and pattern generators
NextSpecial ==
    \/ Seed
    \/ Tick
    \/ \E ns \in Counts, na \in Counts : GenerateGradesDict(ns, na)
    \/ \E days \in Counts, initial \in Initials : GenerateTimeSeries(days, initial)
    \/ \E n \in Counts : GenerateUserData(n)
    \/ GenerateMixedTypes
    \/ GenerateEmailsText
    \/ GeneratePatternNumbers

SpecSpecial == Init /\ [][NextSpecial]_vars

\* A client that regenerates everything right after seeding, with other
\* draws and the passage of time in between.
NextRepro ==
    \/ Seed
    \/ Tick
    \/ GenerateWords(1)
    \/ (ret.fn = "seed" /\ GenerateAllDatasets)

SpecRepro == Init /\ [][NextRepro]_vars

-----------------------------------------------------------------------------
(* Properties *)

Returns(fn) == ret.fn = fn /\ ret.status = "returned"
Range(seq) == {seq[i] : i \in DOMAIN seq}
Without(rec, field) == [f \in (DOMAIN rec) \ {field} |-> rec[f]]

\* a generate_all_datasets() output with its date/timestamp fields removed
NoDates(out) ==
    [out EXCEPT
        !.transactions = [k \in DOMAIN @ |-> Without(@[k], "date")],
        !.logs = [k \in DOMAIN @ |-> Without(@[k], "timestamp")],
        !.time_series = [k \in DOMAIN @ |-> Without(@[k], "date")],
        !.users = [k \in DOMAIN @ |->
                     [@[k] EXCEPT !.purchases =
                        [j \in DOMAIN @ |-> Without(@[j], "date")]]]]

SeededRun == ret.fn = "generate_all_datasets" /\ ret.fresh /\ ret.status = "returned"

\* C1 (as stated): two generate_all_datasets() runs, each made right after
\* seeding the shared source with the same seed, return identical output for
\* every dataset key, date and timestamp fields included.
C1_IdenticalOutput ==
    (first.set /\ SeededRun) => ret.value = first.value

\* C1 (amended): two such runs return identical output in every field other
\* than the date/timestamp fields of transactions, logs, time_series and
\* users; those are identical too when the clock reads the same in both runs.
C1_IdenticalButDates ==
    (first.set /\ SeededRun) =>
        /\ NoDates(ret.value) = NoDates(first.value)
        /\ ret.now = first.now => ret.value = first.value

\* a second seeded run, made later than the first
C1_Witness == first.set /\ SeededRun /\ ret.now > first.now

\* C2: every date generate_transactions(n) returns lies in the 90 days that
\* end at the instant of the call: now - 90 days <= date <= now.
C2_DatesInWindow ==
    Returns("generate_transactions") =>
        \A k \in DOMAIN ret.value :
            /\ ret.now - 90 * Day <= ret.value[k].date
            /\ ret.value[k].date <= ret.now

CountGenerators ==
    {"generate_numbers", "generate_strings", "generate_words", "generate_sentences",
     "generate_students", "generate_products", "generate_transactions", "generate_logs"}

\* C3: a count-parameterised generator called with n >= 0 returns exactly n
\* items; it returns unless generate_numbers got an unknown type or an empty
\* range was drawn from (min > max with n > 0).
C3_ExactCount ==
    ret.fn \in CountGenerators =>
        /\ ret.status = "returned" => Len(ret.value) = ret.args[1]
        /\ ret.status = "raised" =>
            \/ /\ ret.fn = "generate_numbers"
               /\ \/ ret.args[4] \notin {"int", "float"}
                  \/ ret.args[4] = "int" /\ ret.args[1] > 0 /\ ret.args[2] > ret.args[3]
            \/ /\ ret.fn = "generate_strings"
               /\ ret.args[1] > 0 /\ ret.args[2] > ret.args[3]

\* each of the eight generators can return a list of the largest count
C3_Witness ==
    /\ Returns("generate_sentences")
    /\ ret.args[1] = MaxN
    /\ Len(ret.value) = MaxN
    /\ \E k \in DOMAIN ret.value : Len(ret.value[k]) > 6

\* C4: generate_numbers with a type that is neither 'int' nor 'float' raises,
\* whatever n (0 included), min_val and max_val are, and returns no list.
C4_UnknownTypeRaises ==
    (ret.fn = "generate_numbers" /\ ret.args[4] \notin {"int", "float"}) =>
        /\ ret.status = "raised"
        /\ ret.error = "ValueError"
        /\ ret.value = None

C4_Witness ==
    /\ ret.fn = "generate_numbers"
    /\ ret.args[4] = "bogus"
    /\ ret.args[1] = 0
    /\ ret.status = "raised"

\* C5: with min_val <= max_val, every value of generate_numbers(type='int')
\* and every cell of generate_matrix lies in min_val..max_val, and the matrix
\* has rows rows of cols cells each.
C5_InRange ==
    /\ (ret.fn = "generate_numbers" /\ ret.args[4] = "int" /\ ret.args[2] <= ret.args[3]) =>
            /\ ret.status = "returned"
            /\ \A k \in DOMAIN ret.value :
                    ret.args[2] <= ret.value[k] /\ ret.value[k] <= ret.args[3]
    /\ (ret.fn = "generate_matrix" /\ ret.args[3] <= ret.args[4]) =>
            /\ ret.status = "returned"
            /\ Len(ret.value) = ret.args[1]
            /\ \A r \in DOMAIN ret.value :
                    /\ Len(ret.value[r]) = ret.args[2]
                    /\ \A c \in DOMAIN ret.value[r] :
                            /\ ret.args[3] <= ret.value[r][c]
                            /\ ret.value[r][c] <= ret.args[4]

\* a full matrix over a proper range, with cells at both ends of it
C5_Witness ==
    /\ Returns("generate_matrix")
    /\ ret.args[1] = MaxN /\ ret.args[2] = MaxN
    /\ ret.args[3] < ret.args[4]
    /\ \E r \in DOMAIN ret.value : \E c \in DOMAIN ret.value[r] :
            ret.value[r][c] = ret.args[3]
    /\ \E r \in DOMAIN ret.value : \E c \in DOMAIN ret.value[r] :
            ret.value[r][c] > ret.args[3]

\* C6: generate_time_series(days, initial), days >= 0, any initial, returns
\* exactly days points, dates strictly increasing, every value >= 0.
C6_TimeSeries ==
    ret.fn = "generate_time_series" =>
        /\ ret.status = "returned"
        /\ Len(ret.value) = ret.args[1]
        /\ \A k \in DOMAIN ret.value : ret.value[k].value >= 0
        /\ \A k \in 1..(Len(ret.value) - 1) : ret.value[k].date < ret.value[k + 1].date

\* a series from a negative initial value, clamped at 0
C6_Witness ==
    /\ Returns("generate_time_series")
    /\ ret.args[2] < 0
    /\ Len(ret.value) >= 2
    /\ ret.value[1].value = 0
    /\ ret.value[1].date < ret.value[2].date

Count(seq, v) == Cardinality({i \in DOMAIN seq : seq[i] = v})

\* the list generate_pattern_numbers assembles before shuffling it
Assembled(g) ==
    [i \in 1..NSquares |-> i * i] \o primes \o fibs
        \o [i \in 1..NPatternRandom |-> RandInt(Step(g, i - 1), 1, 100)]

\* C7: generate_pattern_numbers() returns 86 numbers, among them every square
\* 1, 4, ..., 100 and every prime of the list; the result is a permutation of
\* the assembled list.
C7_PatternNumbers ==
    ret.fn = "generate_pattern_numbers" =>
        /\ ret.status = "returned"
        /\ Len(ret.value) = 86
        /\ \A i \in 1..10 : i * i \in Range(ret.value)
        /\ {2, 3, 5, 7, 11, 13, 17, 19, 23, 29, 31, 37, 41, 43, 47} \subseteq Range(ret.value)
        /\ \A v \in 1..100 : Count(ret.value, v) = Count(Assembled(ret.rng0), v)

\* a result the shuffle has reordered
C7_Witness ==
    /\ Returns("generate_pattern_numbers")
    /\ ret.value # Assembled(ret.rng0)
    /\ ret.value[1] # 1

\* C8: generate_user_data(n) returns n users, each with 0 to 10 purchases,
\* and no purchase record belongs to two users' lists (nor twice to one).
C8_UserData ==
    ret.fn = "generate_user_data" =>
        /\ ret.status = "returned"
        /\ Len(ret.value) = ret.args[1]
        /\ \A u \in DOMAIN ret.value :
                /\ Len(ret.value[u].purchases) \in 0..10
                /\ \A v \in DOMAIN ret.value :
                     \A i \in DOMAIN ret.value[u].purchases :
                       \A j \in DOMAIN ret.value[v].purchases :
                            ret.value[u].purchases[i].oid = ret.value[v].purchases[j].oid
                                => (u = v /\ i = j)

\* two users who both own purchases
C8_Witness ==
    /\ Returns("generate_user_data")
    /\ Len(ret.value) >= 2
    /\ Len(ret.value[1].purchases) >= 1
    /\ Len(ret.value[2].purchases) >= 1

\* C9: every entry of generate_logs(n) has one of the five levels and a
\* message of that level's pool; 'Generic message' never appears.
C9_LogMessages ==
    Returns("generate_logs") =>
        \A k \in DOMAIN ret.value :
            /\ ret.value[k].level \in {"INFO", "WARNING", "ERROR", "DEBUG", "CRITICAL"}
            /\ ret.value[k].message \in Range(messages[ret.value[k].level])
            /\ ret.value[k].message # "Generic message"

\* logs of two different levels
C9_Witness ==
    /\ Returns("generate_logs")
    /\ \E k \in DOMAIN ret.value : ret.value[k].level = "CRITICAL"
    /\ \E k \in DOMAIN ret.value : ret.value[k].level = "INFO"

\* C10: a generate_numbers call that fails on an unknown type leaves the
\* shared random source in the state it found it in.
C10_FailedCallDrawsNothing ==
    [][(/\ ret'.fn = "generate_numbers"
        /\ ret'.status = "raised"
        /\ ret'.args[4] \notin {"int", "float"})
            => (rng' = rng /\ rng' = ret'.rng0 /\ stream' = stream)]_vars

\* a failed call with n > 0 made after the source had advanced
C10_Witness ==
    /\ ret.fn = "generate_numbers"
    /\ ret.status = "raised"
    /\ ret.args[4] = "bogus"
    /\ ret.args[1] > 0
    /\ ret.rng0 # SeedState
    /\ rng = ret.rng0

=============================================================================
